---- MODULE Spec2Model ----
(***************************************************************************)
(* A model of tor-relay-checker (src/src/main.rs).                         *)
(*                                                                         *)
(* Strings are sequences of one-character strings, so that format_address  *)
(* and parse_or_addresses work on characters exactly as the Rust code      *)
(* does.  Option<T> is a sequence of length 0 (None) or 1 (Some).          *)
(***************************************************************************)
EXTENDS Integers, Sequences, FiniteSets, TLC

(***************************************************************************)
(* State.  The program's run (main) is one state machine; the pure         *)
(* functions are also exercised on their own, each with its inputs, its    *)
(* result and the position of the call.                                    *)
(***************************************************************************)
VARIABLES
    c_pc, c_host, c_port, c_raw, c_parsed,   \* format_address / parse_or_addresses
    f_pc, f_relays, f_ports, f_out,          \* filter_by_port
    p_pc, p_relay, p_envs, p_out,            \* check_relay
    g_pc, g_urls, g_proxy, g_env, g_out,     \* grab_relays
    \* main
    args,            \* the parsed command line (struct Args)
    pc,              \* where main is
    err,             \* why main ended abnormally, "" otherwise
    fetched,         \* grab_relays has returned Ok
    relay_pool,      \* relays: fetched, then filtered, then shuffled
    chunk_no,        \* number of the chunk the for loop is at, from 1
    spawned,         \* how many relays of the chunk the stream has spawned
    tasks,           \* per relay of the pool: its probe task
    readyq,          \* the stream's join handles that are due a poll, in order
    working_relays,  \* the reachable relays found so far
    sink,            \* what was written to the output (file or stdout)
    task_failed,     \* number of "Task failed" lines written to stderr
    finished_order   \* the tasks whose output is stored and not yet taken, oldest first

codecVars == << c_pc, c_host, c_port, c_raw, c_parsed >>
filterVars == << f_pc, f_relays, f_ports, f_out >>
probeVars == << p_pc, p_relay, p_envs, p_out >>
fetchVars == << g_pc, g_urls, g_proxy, g_env, g_out >>

mainVars == << args, pc, err, fetched, relay_pool, chunk_no, spawned, tasks, readyq,
              working_relays, sink, task_failed, finished_order >>

vars == << codecVars, filterVars, probeVars, fetchVars, mainVars >>

notCodecVars == << filterVars, probeVars, fetchVars, mainVars >>
notFilterVars == << codecVars, probeVars, fetchVars, mainVars >>
notProbeVars == << codecVars, filterVars, fetchVars, mainVars >>
notFetchVars == << codecVars, filterVars, probeVars, mainVars >>
notMainVars == << codecVars, filterVars, probeVars, fetchVars >>

(***************************************************************************)
(* Bounds of the model.                                                    *)
(***************************************************************************)
MaxHostLen == 3
MaxAddrs == 2
MaxExtra == 2
MaxBatch == 2
MaxGoal == 2
MaxRawLen == 4

(***************************************************************************)
(* Program constants.                                                      *)
(***************************************************************************)
\* u16::MAX, the largest value parse::<u16>() accepts (main.rs:61).
U16Max == 65535

None == << >>
Some(x) == << x >>

(***************************************************************************)
(* Character-level string helpers (std::str).                              *)
(***************************************************************************)
Digits == << "0", "1", "2", "3", "4", "5", "6", "7", "8", "9" >>

IsDigit(c) == \E d \in 1..10 : Digits[d] = c

DigitVal(c) == (CHOOSE d \in 1..10 : Digits[d] = c) - 1

\* str::contains(':')
Contains(s, c) == \E i \in 1..Len(s) : s[i] = c

\* index of the first occurrence of c in s, 0 when there is none
FirstIndexOf(s, c) ==
    IF Contains(s, c)
    THEN CHOOSE i \in 1..Len(s) : s[i] = c /\ \A j \in 1..(i - 1) : s[j] # c
    ELSE 0

\* index of the last occurrence of c in s, 0 when there is none
LastIndexOf(s, c) ==
    IF Contains(s, c)
    THEN CHOOSE i \in 1..Len(s) : s[i] = c /\ \A j \in (i + 1)..Len(s) : s[j] # c
    ELSE 0

\* the split point a split_once (first ':') would use
SplitIndexFirst(s) == FirstIndexOf(s, ":")

\* the split point of addr_str.rsplit_once(':')
SplitIndex(s) == LastIndexOf(s, ":")

\* addr_str.rsplit_once(':') : Option<(host_part, port_str)>
RSplitOnce(s) ==
    LET i == SplitIndex(s)
    IN  IF i = 0
        THEN None
        ELSE Some(<< SubSeq(s, 1, i - 1), SubSeq(s, i + 1, Len(s)) >>)

\* the value of a string of decimal digits; -1 once it exceeds u16::MAX
\* (checked_mul / checked_add overflow in from_str_radix)
RECURSIVE DigitsValue(_, _)
DigitsValue(s, acc) ==
    IF s = << >>
    THEN acc
    ELSE LET v == acc * 10 + DigitVal(Head(s))
         IN  IF v > U16Max THEN -1 ELSE DigitsValue(Tail(s), v)

\* port_str.parse::<u16>().ok() : an optional leading '+', then one or more
\* decimal digits, the value at most u16::MAX
ParseU16(s) ==
    LET body == IF Len(s) > 1 /\ s[1] = "+" THEN Tail(s) ELSE s
    IN  IF body = << >> \/ \E i \in 1..Len(body) : ~IsDigit(body[i])
        THEN None
        ELSE LET v == DigitsValue(body, 0)
             IN  IF v < 0 THEN None ELSE Some(v)

\* Display of a u16: decimal, no leading zeros
RECURSIVE U16ToString(_)
U16ToString(n) ==
    IF n < 10
    THEN << Digits[n + 1] >>
    ELSE Append(U16ToString(n \div 10), Digits[(n % 10) + 1])

\* host_part.strip_prefix('[').and_then(|h| h.strip_suffix(']')).unwrap_or(host_part)
StripBrackets(host_part) ==
    IF Len(host_part) >= 1 /\ host_part[1] = "["
    THEN LET h == Tail(host_part)
         IN  IF Len(h) >= 1 /\ h[Len(h)] = "]"
             THEN SubSeq(h, 1, Len(h) - 1)
             ELSE host_part
    ELSE host_part

(***************************************************************************)
(* AddressCodec: format_address and parse_or_addresses.                    *)
(***************************************************************************)
format_address(host, port) ==
    IF Contains(host, ":")
    THEN << "[" >> \o host \o << "]", ":" >> \o U16ToString(port)
    ELSE host \o << ":" >> \o U16ToString(port)

\* the closure of filter_map: Option<(host, port)> for one address string
ParseOne(addr_str) ==
    LET sp == RSplitOnce(addr_str)
    IN  IF sp = None
        THEN None
        ELSE LET port == ParseU16(sp[1][2])
             IN  IF port = None
                 THEN None
                 ELSE Some(<< StripBrackets(sp[1][1]), port[1] >>)

\* a decoder that gives up at the first address it cannot parse
RECURSIVE ParseUntilMalformed(_)
ParseUntilMalformed(or_addresses) ==
    IF or_addresses = << >> \/ ParseOne(Head(or_addresses)) = None
    THEN << >>
    ELSE ParseOne(Head(or_addresses)) \o ParseUntilMalformed(Tail(or_addresses))

RECURSIVE parse_or_addresses(_)
parse_or_addresses(or_addresses) ==
    IF or_addresses = << >>
    THEN << >>
    ELSE ParseOne(Head(or_addresses)) \o parse_or_addresses(Tail(or_addresses))

(***************************************************************************)
(* The codec on its own: encode a (host, port), decode the result.         *)
(***************************************************************************)
HostChars == { "a", "1", ":", "[", "]" }

RECURSIVE StringsUpTo(_, _)
StringsUpTo(chars, n) ==
    IF n = 0
    THEN { << >> }
    ELSE LET shorter == StringsUpTo(chars, n - 1)
         IN  shorter \cup { Append(s, c) : s \in shorter, c \in chars }

Hosts == StringsUpTo(HostChars, MaxHostLen)

SamplePorts == { 0, 9, 10, 443, 9001, U16Max }

CodecIdle ==
    /\ c_pc = "idle"
    /\ c_host = << >>
    /\ c_port = 0
    /\ c_raw = << >>
    /\ c_parsed = << >>

CodecInit ==
    /\ c_pc = "start"
    /\ c_host \in Hosts
    /\ c_port \in SamplePorts
    /\ c_raw = << >>
    /\ c_parsed = << >>

Encode ==
    /\ c_pc = "start"
    /\ c_raw' = format_address(c_host, c_port)
    /\ c_pc' = "encoded"
    /\ UNCHANGED << c_host, c_port, c_parsed >>
    /\ UNCHANGED notCodecVars

Decode ==
    /\ c_pc = "encoded"
    /\ c_parsed' = parse_or_addresses(<< c_raw >>)
    /\ c_pc' = "decoded"
    /\ UNCHANGED << c_host, c_port, c_raw >>
    /\ UNCHANGED notCodecVars

CodecNext == Encode \/ Decode

\* parse_or_addresses on address strings as a directory may serve them: every
\* short string over HostChars, and some longer ones
RawBareV6 == << "2", "0", "0", "1", ":", "d", "b", "8", ":", ":", "1" >>
RawMaxPort == << "a", ":", "6", "5", "5", "3", "5" >>
RawOverflow == << "a", ":", "6", "5", "5", "3", "6" >>
RawPlusPort == << "a", ":", "+", "1" >>

RawAddrs ==
    StringsUpTo(HostChars, MaxRawLen)
    \cup { RawBareV6, RawMaxPort, RawOverflow, RawPlusPort }

DecodeInit ==
    /\ c_pc = "raw"
    /\ c_host = << >>
    /\ c_port = 0
    /\ c_raw \in RawAddrs
    /\ c_parsed = << >>

DecodeRaw ==
    /\ c_pc = "raw"
    /\ c_parsed' = parse_or_addresses(<< c_raw >>)
    /\ c_pc' = "parsed"
    /\ UNCHANGED << c_host, c_port, c_raw >>
    /\ UNCHANGED notCodecVars

DecodeNext == DecodeRaw

(***************************************************************************)
(* Relays and filter_by_port.                                              *)
(***************************************************************************)
\* struct Relay { fingerprint, or_addresses }
Relay(fp, addrs) == [ fingerprint |-> fp, or_addresses |-> addrs ]

\* the filter_map closure with the narrowed copy keeping the relay's own
\* or_addresses (the assignment to relay_copy.or_addresses left out)
RECURSIVE NarrowRelayKeepAll(_, _, _)
NarrowRelayKeepAll(relay, parsed, ports) ==
    IF parsed = << >>
    THEN << >>
    ELSE (IF Head(parsed)[2] \in ports THEN << relay >> ELSE << >>)
         \o NarrowRelayKeepAll(relay, Tail(parsed), ports)

\* the inner filter_map of filter_by_port over one relay's parsed addresses:
\* one copy of the relay per address whose port is listed, carrying only
\* that address, re-encoded
RECURSIVE NarrowRelay(_, _, _)
NarrowRelay(relay, parsed, ports) ==
    IF parsed = << >>
    THEN << >>
    ELSE (IF Head(parsed)[2] \in ports
          THEN << [ relay EXCEPT
                      !.or_addresses =
                          << format_address(Head(parsed)[1], Head(parsed)[2]) >> ] >>
          ELSE << >>)
         \o NarrowRelay(relay, Tail(parsed), ports)

\* the flat_map of filter_by_port
RECURSIVE FlatMapNarrow(_, _)
FlatMapNarrow(relays, ports) ==
    IF relays = << >>
    THEN << >>
    ELSE NarrowRelay(Head(relays), parse_or_addresses(Head(relays).or_addresses), ports)
         \o FlatMapNarrow(Tail(relays), ports)

\* ports is the Vec<u16> of --port, read only through is_empty and contains:
\* modelled as the set of its elements
filter_by_port(relays, ports) ==
    IF ports = {}
    THEN relays
    ELSE FlatMapNarrow(relays, ports)

(***************************************************************************)
(* Sample address strings, as the directory may publish them.              *)
(***************************************************************************)
RawV4p1 == << "a", ":", "1" >>                      \* a:1
RawV4p2 == << "b", ":", "2" >>                      \* b:2
RawV6p1 == << "[", "a", ":", "b", "]", ":", "1" >>  \* [a:b]:1
RawNoColon == << "a" >>                             \* a      (no port)
RawBadPort == << "a", ":", "x" >>                   \* a:x    (port not a number)

RawSamples == { RawV4p1, RawV4p2, RawV6p1, RawNoColon, RawBadPort }

RECURSIVE SeqsUpTo(_, _)
SeqsUpTo(S, n) ==
    IF n = 0
    THEN { << >> }
    ELSE LET shorter == SeqsUpTo(S, n - 1)
         IN  shorter \cup { Append(s, x) : s \in shorter, x \in S }

AddressLists == SeqsUpTo(RawSamples, MaxAddrs)

PortSets == SUBSET { 1, 2 }

(***************************************************************************)
(* filter_by_port on its own.                                              *)
(***************************************************************************)
FilterIdle ==
    /\ f_pc = "idle"
    /\ f_relays = << >>
    /\ f_ports = {}
    /\ f_out = << >>

FilterInputs ==
    { << >> }
    \cup { << Relay("A", a) >> : a \in AddressLists }
    \cup { << Relay("A", a), Relay("B", b) >> : a \in AddressLists, b \in AddressLists }

FilterInit ==
    /\ f_pc = "start"
    /\ f_relays \in FilterInputs
    /\ f_ports \in PortSets
    /\ f_out = << >>

FilterCall ==
    /\ f_pc = "start"
    /\ f_out' = filter_by_port(f_relays, f_ports)
    /\ f_pc' = "done"
    /\ UNCHANGED << f_relays, f_ports >>
    /\ UNCHANGED notFilterVars

FilterNext == FilterCall

(***************************************************************************)
(* Prober: check_connection and check_relay.                               *)
(*                                                                         *)
(* The network is the environment.  What it does to one address is a       *)
(* record: whether lookup_host resolved, and, when it did, the outcome of  *)
(* TcpStream::connect under the timeout for each resolved socket address,  *)
(* in the order lookup_host yields them.                                   *)
(***************************************************************************)
ResolveErr == [ resolved |-> FALSE, conns |-> << >> ]
Resolved(conns) == [ resolved |-> TRUE, conns |-> conns ]

\* the for loop of check_connection over the resolved socket addresses
RECURSIVE ConnectLoop(_, _)
ConnectLoop(conns, last_err) ==
    IF conns = << >>
    THEN IF last_err = None THEN "NotFound" ELSE last_err[1]
    ELSE CASE Head(conns) = "connected" -> "Ok"
           [] Head(conns) = "refused"   -> ConnectLoop(Tail(conns), Some("Refused"))
           [] OTHER                     -> ConnectLoop(Tail(conns), Some("TimedOut"))

\* check_connection: "Ok", or the io::Error it returns
check_connection(host, port, env) ==
    LET address == format_address(host, port)
    IN  IF ~env.resolved
        THEN "LookupFailed"
        ELSE ConnectLoop(env.conns, None)

\* the loop of check_relay leaving at the first reachable address
RECURSIVE ProbeLoopFirstOnly(_, _, _, _)
ProbeLoopFirstOnly(addresses, envs, reachable_addrs, attempted) ==
    IF addresses = << >>
    THEN [ reachable |-> reachable_addrs, attempted |-> attempted ]
    ELSE IF check_connection(Head(addresses)[1], Head(addresses)[2], Head(envs)) = "Ok"
         THEN [ reachable |-> Append(reachable_addrs, Head(addresses)),
                attempted |-> Append(attempted, Head(addresses)) ]
         ELSE ProbeLoopFirstOnly(Tail(addresses), Tail(envs), reachable_addrs,
                                 Append(attempted, Head(addresses)))

\* the for loop of check_relay; attempted logs the addresses handed to
\* check_connection, in call order
RECURSIVE ProbeLoop(_, _, _, _)
ProbeLoop(addresses, envs, reachable_addrs, attempted) ==
    IF addresses = << >>
    THEN [ reachable |-> reachable_addrs, attempted |-> attempted ]
    ELSE ProbeLoop(Tail(addresses), Tail(envs),
                   IF check_connection(Head(addresses)[1], Head(addresses)[2],
                                       Head(envs)) = "Ok"
                   THEN Append(reachable_addrs, Head(addresses))
                   ELSE reachable_addrs,
                   Append(attempted, Head(addresses)))

\* check_relay: envs[i] is what the network does to the i-th parsed address
check_relay(relay, envs) ==
    LET addresses == parse_or_addresses(relay.or_addresses)
        run == ProbeLoop(addresses, envs, << >>, << >>)
    IN  [ relay |-> relay, reachable |-> run.reachable, attempted |-> run.attempted ]

(***************************************************************************)
(* check_relay on its own.                                                 *)
(***************************************************************************)
ConnOutcomes == { "connected", "refused", "timeout" }

NetEnvs ==
    { ResolveErr, Resolved(<< >>) }
    \cup { Resolved(<< c >>) : c \in ConnOutcomes }
    \cup { Resolved(<< "refused", "connected" >>), Resolved(<< "timeout", "refused" >>) }

ProbeIdle ==
    /\ p_pc = "idle"
    /\ p_relay = Relay("A", << >>)
    /\ p_envs = << >>
    /\ p_out = << >>

\* the address lists of the relay under probe: with the lists of the
\* samples, some whose port is at or over the limit of u16
ProbeAddressLists ==
    AddressLists
    \cup { << RawOverflow, RawV4p1 >>, << RawV4p1, RawMaxPort >>,
           << RawPlusPort, RawOverflow >> }

ProbeInit ==
    /\ p_pc = "start"
    /\ p_relay \in { Relay("A", a) : a \in ProbeAddressLists }
    /\ p_envs \in [ 1..MaxAddrs -> NetEnvs ]
    /\ p_out = << >>

ProbeCall ==
    /\ p_pc = "start"
    /\ p_out' = << check_relay(p_relay, p_envs) >>
    /\ p_pc' = "done"
    /\ UNCHANGED << p_relay, p_envs >>
    /\ UNCHANGED notProbeVars

ProbeNext == ProbeCall

(***************************************************************************)
(* CandidateSource: grab_relays.                                           *)
(*                                                                         *)
(* The environment of one call: whether Client::builder().build() works,   *)
(* and what the i-th request of the loop meets:                            *)
(*   "send_err"   client.get(url).send() fails                             *)
(*   "bad_status" a response whose status is not 2xx                       *)
(*   "bad_json"   a 2xx response whose body is no OnionooResponse          *)
(*   "ok"         a 2xx response that decodes, with its relays             *)
(***************************************************************************)
BaseUrl == "onionoo.torproject.org"
GithubMirror == "raw.githubusercontent.com/nukeddd"
BitbucketMirror == "bitbucket.org/ValdikSS"

\* a proxy string reqwest::Proxy::all accepts, and one it rejects
GoodProxy == "socks5h://127.0.0.1:9050"
BadProxy == "::"

ProxyParses(p) == p = GoodProxy

\* urls: primary inserted at 0, then the caller's, then the two mirrors
UrlList(preferred_urls) ==
    << BaseUrl >> \o preferred_urls \o << GithubMirror, BitbucketMirror >>

FetchOk(relays, attempted) ==
    [ ok |-> TRUE, relays |-> relays, err |-> "", attempted |-> attempted ]

FetchErr(e, attempted) ==
    [ ok |-> FALSE, relays |-> << >>, err |-> e, attempted |-> attempted ]

\* the loop going on to the next url after a success, the last success winning
RECURSIVE FetchLoopNoReturn(_, _, _, _)
FetchLoopNoReturn(urls, resp, i, attempted) ==
    IF i > Len(urls)
    THEN LET oks == { k \in 1..Len(urls) : resp[k].kind = "ok" }
         IN  IF oks = {}
             THEN FetchErr("SourceUnavailable", attempted)
             ELSE FetchOk(resp[CHOOSE k \in oks : \A m \in oks : m <= k].relays,
                          attempted)
    ELSE FetchLoopNoReturn(urls, resp, i + 1, Append(attempted, urls[i]))

\* the loop giving up at the first source that fails, with no fallback
FetchLoopGiveUp(urls, resp, i, attempted) ==
    IF resp[i].kind = "ok"
    THEN FetchOk(resp[i].relays, Append(attempted, urls[i]))
    ELSE FetchErr("SourceUnavailable", Append(attempted, urls[i]))

\* for url in &urls { ... }: the first response that is 2xx and decodes
\* returns; after the last url, the anyhow! error
RECURSIVE FetchLoop(_, _, _, _)
FetchLoop(urls, resp, i, attempted) ==
    IF i > Len(urls)
    THEN FetchErr("SourceUnavailable", attempted)
    ELSE IF resp[i].kind = "ok"
         THEN FetchOk(resp[i].relays, Append(attempted, urls[i]))
         ELSE FetchLoop(urls, resp, i + 1, Append(attempted, urls[i]))

\* grab_relays; proxy is an Option<String>; attempted logs the urls
\* requested ("Trying to download from ..."), in order
grab_relays(preferred_urls, proxy, env) ==
    LET urls == UrlList(preferred_urls)
    IN  IF proxy # None /\ ~ProxyParses(proxy[1])
        THEN FetchErr("ProxyError", << >>)
        ELSE IF ~env.build_ok
             THEN FetchErr("BuildError", << >>)
             ELSE FetchLoop(urls, env.resp, 1, << >>)

(***************************************************************************)
(* grab_relays on its own.                                                 *)
(***************************************************************************)
ExtraUrls == { "extra-1.example", "extra-2.example" }

SourceIds == << "S1", "S2", "S3", "S4", "S5", "S6", "S7", "S8" >>

\* what the i-th request returns when it succeeds: a list naming i
SourceBody(i) == << Relay(SourceIds[i], << RawV4p1 >>) >>

Failure(kind) == [ kind |-> kind, relays |-> << >> ]
Success(relays) == [ kind |-> "ok", relays |-> relays ]

ResponseKinds == { "send_err", "bad_status", "bad_json", "ok" }

ResponseAt(i, kind) ==
    IF kind = "ok" THEN Success(SourceBody(i)) ELSE Failure(kind)

FetchEnvs(n) ==
    { [ build_ok |-> b, resp |-> [ i \in 1..n |-> ResponseAt(i, k[i]) ] ] :
        b \in BOOLEAN, k \in [ 1..n -> ResponseKinds ] }

FetchIdle ==
    /\ g_pc = "idle"
    /\ g_urls = << >>
    /\ g_proxy = None
    /\ g_env = [ build_ok |-> TRUE, resp |-> << >> ]
    /\ g_out = << >>

FetchInit ==
    /\ g_pc = "start"
    /\ g_urls \in SeqsUpTo(ExtraUrls, MaxExtra)
    /\ g_proxy \in { None, Some(GoodProxy), Some(BadProxy) }
    /\ g_env \in FetchEnvs(Len(g_urls) + 3)
    /\ g_out = << >>

FetchCall ==
    /\ g_pc = "start"
    /\ g_out' = << grab_relays(g_urls, g_proxy, g_env) >>
    /\ g_pc' = "done"
    /\ UNCHANGED << g_urls, g_proxy, g_env >>
    /\ UNCHANGED notFetchVars

FetchNext == FetchCall

(***************************************************************************)
(* main: the scan.                                                         *)
(***************************************************************************)
Min(a, b) == IF a < b THEN a ELSE b

\* all orders of a sequence: what relays.shuffle(&mut thread_rng()) can leave
Shuffles(s) ==
    { [ k \in 1..Len(s) |-> s[f[k]] ] :
        f \in { g \in [ 1..Len(s) -> 1..Len(s) ] :
                  \A a, b \in 1..Len(s) : a # b => g[a] # g[b] } }

\* a batch size one larger than --num-relays
BatchSizeOffByOne == args.num_relays + 1

\* args.num_relays, the argument of both chunks() and buffer_unordered()
BatchSize == args.num_relays

\* a chunk count that leaves out the short last chunk
NumChunksFloor == Len(relay_pool) \div BatchSize

\* chunks.len() of relays.chunks(n), n > 0
NumChunks == (Len(relay_pool) + BatchSize - 1) \div BatchSize

\* every chunk starting over at the head of the pool
ChunkBaseZero(k) == 0

\* pool index of the first relay of chunk k, minus one
ChunkBase(k) == (k - 1) * BatchSize

\* chunk.len() of chunk k
ChunkLen(k) == Min(BatchSize, Len(relay_pool) - ChunkBase(k))

\* the chunk a relay of the pool falls in
ChunkOf(t) == ((t - 1) \div BatchSize) + 1

IdleTask == [ st |-> "unspawned", res |-> None ]

\* join handles held by the stream's FuturesUnordered: spawned by the
\* current stream and not yet yielded
InProgress ==
    { t \in 1..Len(tasks) :
        ChunkOf(t) = chunk_no /\ tasks[t].st \in { "running", "finished" } }

\* main has returned or panicked; the runtime is gone
Terminated == pc \in { "exit_ok", "exit_err", "panic" }

\* the lines of out_str for one reachable relay
OutStr(relay, reachable_addrs) ==
    [ k \in 1..Len(reachable_addrs) |->
        << IF args.torrc_fmt THEN "Bridge " ELSE "",
           format_address(reachable_addrs[k][1], reachable_addrs[k][2]),
           relay.fingerprint >> ]

\* the relay lists the directory may serve
PoolA == << Relay("A", << RawV4p1 >>) >>
PoolABC ==
    << Relay("A", << RawV4p1 >>),
       Relay("B", << RawV6p1, RawV4p2 >>),
       Relay("C", << RawNoColon >>) >>

\* a relay that listens on port 2 only
PoolD == << Relay("D", << RawV4p2 >>) >>

SamplePools == { << >>, PoolA, PoolD, PoolABC }

MainResponses == { Failure("send_err") } \cup { Success(b) : b \in SamplePools }

MainFetchEnvs ==
    { [ build_ok |-> b, resp |-> r ] :
        b \in BOOLEAN, r \in [ 1..3 -> MainResponses ] }

ArgsSet ==
    [ num_relays : 0..MaxBatch,
      working_relay_num_goal : 0..MaxGoal,
      timeout : { 10, -1 },
      outfile : BOOLEAN,
      torrc_fmt : BOOLEAN,
      proxy : { None },
      url : { << >> },
      port : { {}, { 1 }, { 1, 2 } } ]

\* what a probe task may meet on an address: the connection is made, or the
\* name does not resolve, or the one resolved address times out
TaskNetEnvs == { Resolved(<< "connected" >>), ResolveErr, Resolved(<< "timeout" >>) }

MainIdle ==
    /\ args = [ num_relays |-> 0, working_relay_num_goal |-> 0, timeout |-> 10,
                outfile |-> FALSE, torrc_fmt |-> FALSE, proxy |-> None,
                url |-> << >>, port |-> {} ]
    /\ pc = "idle"
    /\ err = ""
    /\ fetched = FALSE
    /\ relay_pool = << >>
    /\ chunk_no = 0
    /\ spawned = 0
    /\ tasks = << >>
    /\ readyq = << >>
    /\ working_relays = << >>
    /\ sink = << >>
    /\ task_failed = 0
    /\ finished_order = << >>

MainInit ==
    /\ args \in ArgsSet
    /\ pc = "start"
    /\ err = ""
    /\ fetched = FALSE
    /\ relay_pool = << >>
    /\ chunk_no = 0
    /\ spawned = 0
    /\ tasks = << >>
    /\ readyq = << >>
    /\ working_relays = << >>
    /\ sink = << >>
    /\ task_failed = 0
    /\ finished_order = << >>

\* main returns Err(e)
ExitErr(e) == pc' = "exit_err" /\ err' = e

\* main panics
Panic(e) == pc' = "panic" /\ err' = e

\* lines 172-187: create (truncate) the output file, convert the timeout
Startup ==
    /\ pc = "start"
    /\ \E create_ok \in BOOLEAN :
         IF args.outfile /\ ~create_ok
         THEN ExitErr("CreateOutfile")
         ELSE IF args.timeout < 0
              THEN Panic("Duration::from_secs_f64")
              ELSE pc' = "fetch" /\ err' = err
    /\ UNCHANGED << args, fetched, relay_pool, chunk_no, spawned, tasks, readyq, working_relays, sink, task_failed, finished_order >>
    /\ UNCHANGED notMainVars

\* lines 189-190: grab_relays(...).await?
Fetch ==
    /\ pc = "fetch"
    /\ \E env \in MainFetchEnvs :
         LET out == grab_relays(args.url, args.proxy, env)
         IN  IF out.ok
             THEN /\ relay_pool' = out.relays
                  /\ fetched' = TRUE
                  /\ pc' = "filter"
                  /\ err' = err
             ELSE /\ ExitErr(out.err)
                  /\ UNCHANGED << relay_pool, fetched >>
    /\ UNCHANGED << args, chunk_no, spawned, tasks, readyq, working_relays, sink, task_failed, finished_order >>
    /\ UNCHANGED notMainVars

\* main going on to the shuffle with an empty pool
FilterNoEmptyReturn ==
    /\ pc = "filter"
    /\ relay_pool' = filter_by_port(relay_pool, args.port)
    /\ pc' = "shuffle"
    /\ UNCHANGED << args, err, fetched, chunk_no, spawned, tasks, readyq, working_relays, sink, task_failed, finished_order >>
    /\ UNCHANGED notMainVars

\* lines 192-197: filter_by_port, and the return on an empty pool
Filter ==
    /\ pc = "filter"
    /\ relay_pool' = filter_by_port(relay_pool, args.port)
    /\ pc' = IF relay_pool' = << >> THEN "exit_ok" ELSE "shuffle"
    /\ UNCHANGED << args, err, fetched, chunk_no, spawned, tasks, readyq, working_relays, sink, task_failed, finished_order >>
    /\ UNCHANGED notMainVars

\* line 199
Shuffle ==
    /\ pc = "shuffle"
    /\ relay_pool' \in Shuffles(relay_pool)
    /\ pc' = "chunks"
    /\ UNCHANGED << args, err, fetched, chunk_no, spawned, tasks, readyq, working_relays, sink, task_failed, finished_order >>
    /\ UNCHANGED notMainVars

\* lines 201-203: relays.chunks(n) panics when n is 0
Chunks ==
    /\ pc = "chunks"
    /\ IF BatchSize = 0
       THEN /\ Panic("chunk size must be non-zero")
            /\ UNCHANGED << chunk_no, tasks >>
       ELSE /\ pc' = "loop"
            /\ err' = err
            /\ chunk_no' = 1
            /\ tasks' = [ t \in 1..Len(relay_pool) |-> IdleTask ]
    /\ UNCHANGED << args, fetched, relay_pool, spawned, readyq, working_relays, sink, task_failed, finished_order >>
    /\ UNCHANGED notMainVars

\* a goal check that lets one more batch run when the goal is just met
LoopHeadGoalOffByOne ==
    /\ pc = "loop"
    /\ IF chunk_no > NumChunks \/ Len(working_relays) > args.working_relay_num_goal
       THEN pc' = "complete"
       ELSE pc' = "stream"
    /\ spawned' = 0
    /\ readyq' = << >>
    /\ UNCHANGED << args, err, fetched, relay_pool, chunk_no, tasks, working_relays, sink, task_failed, finished_order >>
    /\ UNCHANGED notMainVars

\* lines 205-221: the head of the for loop: the end of the chunks, the goal
\* check, or a new stream over the chunk (nothing is spawned yet)
LoopHead ==
    /\ pc = "loop"
    /\ IF chunk_no > NumChunks \/ Len(working_relays) >= args.working_relay_num_goal
       THEN pc' = "complete"
       ELSE pc' = "stream"
    /\ spawned' = 0
    /\ readyq' = << >>
    /\ UNCHANGED << args, err, fetched, relay_pool, chunk_no, tasks, working_relays, sink, task_failed, finished_order >>
    /\ UNCHANGED notMainVars

\* buffer_unordered's fill loop may take one more relay from the chunk:
\* fewer than the limit in progress, and the chunk not used up
CanSpawn == spawned < ChunkLen(chunk_no) /\ Cardinality(InProgress) < BatchSize

\* line 218 inside stream.next(): tokio::spawn(check_relay(r, timeout)); the
\* new join handle is due its first poll
Spawn ==
    /\ pc = "stream"
    /\ CanSpawn
    /\ LET t == ChunkBase(chunk_no) + spawned + 1
       IN  /\ tasks' = [ tasks EXCEPT ![t] = [ st |-> "running", res |-> None ] ]
           /\ readyq' = Append(readyq, t)
    /\ spawned' = spawned + 1
    /\ UNCHANGED << args, pc, err, fetched, relay_pool, chunk_no, working_relays, sink, task_failed, finished_order >>
    /\ UNCHANGED notMainVars

InQueue(t) == \E k \in 1..Len(readyq) : readyq[k] = t

\* the task's output is stored for its join handle; a handle that was polled
\* and found pending is woken, that is put back in line for a poll
Finish(t, res) ==
    /\ ~Terminated
    /\ tasks[t].st = "running"
    /\ tasks' = [ tasks EXCEPT ![t] = [ st |-> "finished", res |-> Some(res) ] ]
    /\ readyq' = IF InQueue(t) THEN readyq ELSE Append(readyq, t)
    /\ finished_order' = Append(finished_order, t)
    /\ UNCHANGED << args, pc, err, fetched, relay_pool, chunk_no, spawned, working_relays, sink, task_failed >>
    /\ UNCHANGED notMainVars

\* a probe task that appends its own result to working_relays
TaskFinishPushes(t) ==
    \E envs \in [ 1..Len(parse_or_addresses(relay_pool[t].or_addresses)) -> TaskNetEnvs ] :
        LET out == check_relay(relay_pool[t], envs)
        IN  /\ ~Terminated
            /\ tasks[t].st = "running"
            /\ tasks' = [ tasks EXCEPT ![t] =
                            [ st |-> "finished",
                              res |-> Some([ ok |-> TRUE, relay |-> out.relay,
                                             reachable |-> out.reachable ]) ] ]
            /\ readyq' = IF InQueue(t) THEN readyq ELSE Append(readyq, t)
            /\ finished_order' = Append(finished_order, t)
            /\ working_relays' =
                 IF out.reachable # << >>
                 THEN Append(working_relays, << out.relay, out.reachable >>)
                 ELSE working_relays
            /\ UNCHANGED << args, pc, err, fetched, relay_pool, chunk_no, spawned, sink, task_failed >>
            /\ UNCHANGED notMainVars

\* a probe task runs check_relay to its end, on a runtime worker
TaskFinish(t) ==
    \E envs \in [ 1..Len(parse_or_addresses(relay_pool[t].or_addresses)) -> TaskNetEnvs ] :
        LET out == check_relay(relay_pool[t], envs)
        IN  Finish(t, [ ok |-> TRUE, relay |-> out.relay, reachable |-> out.reachable ])

\* a probe task panics: its join handle yields a JoinError
TaskPanic(t) ==
    Finish(t, [ ok |-> FALSE, relay |-> relay_pool[t], reachable |-> << >> ])

\* the stream ending as soon as the chunk is used up, handles still held
StreamDoneEarly == spawned >= ChunkLen(chunk_no)

\* the stream has nothing left: the chunk is used up and no handle is held
StreamDone == spawned >= ChunkLen(chunk_no) /\ InProgress = {}

\* the while loop leaving main with the JoinError of a crashed task
PollPropagatesJoinError ==
    /\ pc = "stream"
    /\ ~CanSpawn
    /\ readyq # << >>
    /\ LET t == Head(readyq)
           jr == tasks[t].res[1]
       IN  IF tasks[t].st # "finished"
           THEN /\ readyq' = Tail(readyq)
                /\ UNCHANGED << pc, err, tasks, working_relays, sink, task_failed, finished_order >>
           ELSE /\ readyq' = Tail(readyq)
                /\ tasks' = [ tasks EXCEPT ![t] = [ st |-> "consumed", res |-> None ] ]
                /\ finished_order' = SelectSeq(finished_order, LAMBDA u : u # t)
                /\ IF ~jr.ok
                   THEN /\ ExitErr("JoinError")
                        /\ UNCHANGED << working_relays, sink, task_failed >>
                   ELSE IF jr.reachable # << >>
                        THEN /\ sink' = Append(sink, OutStr(jr.relay, jr.reachable))
                             /\ working_relays' =
                                  Append(working_relays, << jr.relay, jr.reachable >>)
                             /\ UNCHANGED << pc, err, task_failed >>
                        ELSE UNCHANGED << pc, err, working_relays, sink, task_failed >>
    /\ UNCHANGED << args, fetched, relay_pool, chunk_no, spawned >>
    /\ UNCHANGED notMainVars

\* lines 222-248: stream.next() polls the join handle at the head of the
\* line.  A pending handle leaves the line until its task wakes it.  A ready
\* one is yielded and the body of the while loop runs on it.
Poll ==
    /\ pc = "stream"
    /\ ~CanSpawn
    /\ readyq # << >>
    /\ LET t == Head(readyq)
           jr == tasks[t].res[1]
       IN  IF tasks[t].st # "finished"
           THEN /\ readyq' = Tail(readyq)
                /\ UNCHANGED << pc, err, tasks, working_relays, sink, task_failed, finished_order >>
           ELSE /\ readyq' = Tail(readyq)
                /\ task_failed' = IF jr.ok THEN task_failed ELSE task_failed + 1
                /\ tasks' = [ tasks EXCEPT ![t] = [ st |-> "consumed", res |-> None ] ]
                /\ finished_order' = SelectSeq(finished_order, LAMBDA u : u # t)
                /\ IF jr.ok /\ jr.reachable # << >>
                   THEN \E write_ok \in BOOLEAN :
                          IF args.outfile /\ ~write_ok
                          THEN /\ ExitErr("SinkWrite")
                               /\ UNCHANGED << working_relays, sink >>
                          ELSE /\ sink' = Append(sink, OutStr(jr.relay, jr.reachable))
                               /\ working_relays' =
                                    Append(working_relays, << jr.relay, jr.reachable >>)
                               /\ UNCHANGED << pc, err >>
                   ELSE UNCHANGED << pc, err, working_relays, sink >>
    /\ UNCHANGED << args, fetched, relay_pool, chunk_no, spawned >>
    /\ UNCHANGED notMainVars

\* stream.next() yields None: the while loop ends, on to the next chunk
StreamEnd ==
    /\ pc = "stream"
    /\ StreamDone
    /\ pc' = "loop"
    /\ chunk_no' = chunk_no + 1
    /\ UNCHANGED << args, err, fetched, relay_pool, spawned, tasks, readyq, working_relays, sink, task_failed, finished_order >>
    /\ UNCHANGED notMainVars

\* lines 253-271: the summary; with --torrc-fmt and an output file the
\* closing line is appended to the file
Complete ==
    /\ pc = "complete"
    /\ IF working_relays # << >> /\ args.outfile /\ args.torrc_fmt
       THEN \E write_ok \in BOOLEAN :
              IF write_ok
              THEN /\ sink' = Append(sink, << << "UseBridges 1", "", "" >> >>)
                   /\ pc' = "exit_ok"
                   /\ err' = err
              ELSE /\ ExitErr("SinkWrite")
                   /\ sink' = sink
       ELSE /\ pc' = "exit_ok"
            /\ UNCHANGED << err, sink >>
    /\ UNCHANGED << args, fetched, relay_pool, chunk_no, spawned, tasks, readyq, working_relays, task_failed, finished_order >>
    /\ UNCHANGED notMainVars

Next ==
    \/ Startup
    \/ Fetch
    \/ Filter
    \/ Shuffle
    \/ Chunks
    \/ LoopHead
    \/ Spawn
    \/ \E t \in 1..Len(tasks) : TaskFinish(t)
    \/ \E t \in 1..Len(tasks) : TaskPanic(t)
    \/ Poll
    \/ StreamEnd
    \/ Complete

InitCodec == CodecInit /\ FilterIdle /\ ProbeIdle /\ FetchIdle /\ MainIdle

SpecCodec == InitCodec /\ [][CodecNext]_vars

InitDecode == DecodeInit /\ FilterIdle /\ ProbeIdle /\ FetchIdle /\ MainIdle

SpecDecode == InitDecode /\ [][DecodeNext]_vars

InitFilter == FilterInit /\ CodecIdle /\ ProbeIdle /\ FetchIdle /\ MainIdle

SpecFilter == InitFilter /\ [][FilterNext]_vars

InitProbe == ProbeInit /\ CodecIdle /\ FilterIdle /\ FetchIdle /\ MainIdle

SpecProbe == InitProbe /\ [][ProbeNext]_vars

InitFetch == FetchInit /\ CodecIdle /\ FilterIdle /\ ProbeIdle /\ MainIdle

SpecFetch == InitFetch /\ [][FetchNext]_vars

Init == MainInit /\ CodecIdle /\ FilterIdle /\ ProbeIdle /\ FetchIdle

Spec == Init /\ [][Next]_vars

\* the run under a fair runtime: a step of main that can be taken is taken,
\* and a probe task that is running comes to its end (tokio drives main and
\* every spawned task; connects are bounded by the timeout)
SpecLive == Init /\ [][Next]_vars /\ WF_vars(Next)

\* a host the claim calls valid: no brackets of its own
ValidHost(h) == ~Contains(h, "[") /\ ~Contains(h, "]")

\* C8: decoding the encoding of a valid (host, port) yields exactly
\* (host, port), for hosts without ':' and for IPv6 hosts containing ':'.
C8_RoundTrip ==
    (c_pc = "decoded" /\ ValidHost(c_host))
        => c_parsed = << << c_host, c_port >> >>

C8_Witness ==
    /\ c_pc = "decoded"
    /\ ValidHost(c_host)
    /\ Contains(c_host, ":")
    /\ c_port = 9001
    /\ c_raw[1] = "["
    /\ c_parsed = << << c_host, c_port >> >>

\* the (candidate, parsed address) pairs of the input whose port is listed
MatchPairs ==
    { p \in (1..Len(f_relays)) \X (1..MaxAddrs) :
        LET parsed == parse_or_addresses(f_relays[p[1]].or_addresses)
        IN  p[2] <= Len(parsed) /\ parsed[p[2]][2] \in f_ports }

PairBefore(q, p) == q[1] < p[1] \/ (q[1] = p[1] /\ q[2] < p[2])

\* the place of a pair in source order
PairRank(p) == Cardinality({ q \in MatchPairs : PairBefore(q, p) }) + 1

\* C7: with a non-empty port set the result holds exactly one narrowed
\* candidate per (candidate, parsed address with a listed port) pair, in
\* source order, each with the candidate's id and exactly one address, whose
\* port is the pair's listed port; with an empty port set the pool is
\* returned unchanged.
C7_PortFilter ==
    f_pc = "done" =>
        IF f_ports = {}
        THEN f_out = f_relays
        ELSE /\ Len(f_out) = Cardinality(MatchPairs)
             /\ \A p \in MatchPairs :
                  LET n == f_out[PairRank(p)]
                      src == parse_or_addresses(f_relays[p[1]].or_addresses)[p[2]]
                      got == parse_or_addresses(n.or_addresses)
                  IN  /\ n.fingerprint = f_relays[p[1]].fingerprint
                      /\ Len(n.or_addresses) = 1
                      /\ Len(got) = 1
                      /\ got[1][2] = src[2]
                      /\ got[1][2] \in f_ports

\* candidate A has an IPv6 and an IPv4 address on a listed port and is
\* narrowed to two candidates; candidate B has no listed port and disappears
C7_Witness ==
    /\ f_pc = "done"
    /\ f_ports = { 1 }
    /\ f_relays = << Relay("A", << RawV6p1, RawV4p1 >>), Relay("B", << RawV4p2 >>) >>
    /\ f_out = << Relay("A", << RawV6p1 >>), Relay("A", << RawV4p1 >>) >>

\* the connect to an address succeeded within the timeout: the host
\* resolved and some resolved socket address accepted the connection
ConnectSucceeded(env) ==
    env.resolved /\ \E i \in 1..Len(env.conns) : env.conns[i] = "connected"

ProbedAddresses == parse_or_addresses(p_relay.or_addresses)

ReachableIdx == { i \in 1..Len(ProbedAddresses) : ConnectSucceeded(p_envs[i]) }

\* C9: check_relay returns for every candidate; it hands every parsed
\* address to check_connection exactly once, in order, whatever the earlier
\* results; reachable is the order-preserving subsequence of the parsed
\* addresses whose connect succeeded (a resolution failure, a refusal and a
\* timeout all leave the address out).
C9_ProbeAll ==
    p_pc = "done" =>
        /\ Len(p_out) = 1
        /\ p_out[1].relay = p_relay
        /\ p_out[1].attempted = ProbedAddresses
        /\ Len(p_out[1].reachable) = Cardinality(ReachableIdx)
        /\ \A i \in ReachableIdx :
             p_out[1].reachable[Cardinality({ j \in ReachableIdx : j < i }) + 1]
                 = ProbedAddresses[i]

\* the first address connects, the second one too: both are tried and kept
C9_Witness ==
    /\ p_pc = "done"
    /\ p_relay.or_addresses = << RawV6p1, RawV4p2 >>
    /\ p_envs[1] = Resolved(<< "refused", "connected" >>)
    /\ p_envs[2] = Resolved(<< "connected" >>)
    /\ p_out[1].attempted = << << << "a", ":", "b" >>, 1 >>, << << "b" >>, 2 >> >>
    /\ p_out[1].reachable = p_out[1].attempted

\* the order the claims state: primary, the caller's urls, the two mirrors
SourceOrder == << BaseUrl >> \o g_urls \o << GithubMirror, BitbucketMirror >>

\* the i-th request returned 2xx and its body decoded
SourceSucceeded(i) == g_env.resp[i].kind = "ok"

\* the HTTP client was built: the proxy, if any, parsed and build() worked
ClientBuilt == (g_proxy = None \/ ProxyParses(g_proxy[1])) /\ g_env.build_ok

\* C4: the requested sources are a prefix of (primary, the caller's urls in
\* the order given, first mirror, second mirror); a request that is not a
\* decoded 2xx moves on to the next source; the first source that succeeds
\* is the last one requested and its relays are what grab_relays returns;
\* once the client is built the loop stops before the end of the list only
\* on such a success.
C4_FallbackOrder ==
    g_pc = "done" =>
        LET out == g_out[1]
            n == Len(out.attempted)
        IN  /\ n <= Len(SourceOrder)
            /\ out.attempted = SubSeq(SourceOrder, 1, n)
            /\ \A i \in 1..(n - 1) : ~SourceSucceeded(i)
            /\ out.ok <=> (n >= 1 /\ SourceSucceeded(n))
            /\ out.ok => out.relays = g_env.resp[n].relays
            /\ (ClientBuilt /\ n < Len(SourceOrder)) => out.ok

\* primary and both of the caller's urls fail, the first mirror answers,
\* the second mirror (which would answer too) is not requested
C4_Witness ==
    /\ g_pc = "done"
    /\ g_urls = << "extra-2.example", "extra-1.example" >>
    /\ g_env.resp[1].kind = "send_err"
    /\ g_env.resp[2].kind = "bad_status"
    /\ g_env.resp[3].kind = "bad_json"
    /\ SourceSucceeded(4)
    /\ SourceSucceeded(5)
    /\ g_out[1].ok
    /\ g_out[1].relays = SourceBody(4)
    /\ g_out[1].attempted =
         << BaseUrl, "extra-2.example", "extra-1.example", GithubMirror >>

\* every source of the list was requested and failed
AllSourcesFailed ==
    /\ g_out[1].attempted = SourceOrder
    /\ \A i \in 1..Len(SourceOrder) : ~SourceSucceeded(i)

\* C5 as stated: whenever grab_relays returns an error, every source of the
\* list was requested and failed.
C5_FailsOnlyWhenAllFailed ==
    (g_pc = "done" /\ ~g_out[1].ok) => AllSourcesFailed

\* C5 amended: grab_relays returns an error either because the HTTP client
\* could not be built (the proxy string is rejected or build() fails), and
\* then no source was requested, or with every source requested and failed.
C5_FailsWhenAllFailedOrNoClient ==
    (g_pc = "done" /\ ~g_out[1].ok) =>
        \/ /\ ~ClientBuilt
           /\ g_out[1].attempted = << >>
           /\ g_out[1].err \in { "ProxyError", "BuildError" }
        \/ /\ ClientBuilt
           /\ g_out[1].err = "SourceUnavailable"
           /\ AllSourcesFailed

\* a rejected proxy string: an error with no source requested, although the
\* primary would have answered
C5_Witness ==
    /\ g_pc = "done"
    /\ g_proxy = Some(BadProxy)
    /\ SourceSucceeded(1)
    /\ ~g_out[1].ok
    /\ g_out[1].attempted = << >>

(***************************************************************************)
(* The scan: batches, concurrency, termination.                            *)
(***************************************************************************)
Running == { t \in 1..Len(tasks) : tasks[t].st = "running" }

\* a batch is started (a stream made for it) only below the goal
StartsOnlyBelowGoal ==
    (pc = "loop" /\ pc' = "stream")
        => Len(working_relays) < args.working_relay_num_goal

\* when the run has ended, every batch with a spawned task has all its
\* tasks completed and consumed
StartedBatchesConsumed ==
    Terminated =>
        \A t, u \in 1..Len(tasks) :
            (tasks[t].st # "unspawned" /\ ChunkOf(u) = ChunkOf(t))
                => tasks[u].st = "consumed"

\* C1: a batch is started only while fewer than goal relays are found, and
\* a batch that was started has every one of its candidates probed and its
\* outcome consumed before the run ends.
C1_EarlyTermination == [][StartsOnlyBelowGoal]_vars /\ []StartedBatchesConsumed

\* C2: no task of a later batch is spawned while a task of an earlier batch
\* is not yet completed and consumed.
C2_BatchesSequential ==
    \A t, u \in 1..Len(tasks) :
        (ChunkOf(t) < ChunkOf(u) /\ tasks[u].st # "unspawned")
            => tasks[t].st = "consumed"

\* the second batch is being probed, both tasks of the first were consumed
C2_Witness ==
    /\ args.num_relays = 2
    /\ Len(tasks) = 3
    /\ tasks[1].st = "consumed"
    /\ tasks[2].st = "consumed"
    /\ tasks[3].st = "running"

\* C3: the probe tasks spawned and not yet completed are never more than
\* --num-relays.
C3_ConcurrencyBound == Cardinality(Running) <= args.num_relays

\* a pool of three, batches of two: two tasks in flight, the third waiting
C3_Witness ==
    /\ args.num_relays = 2
    /\ Len(tasks) = 3
    /\ Cardinality(Running) = 2
    /\ tasks[3].st = "unspawned"

\* C6: a run whose fetch succeeded ends normally, never with an error or a
\* panic.
C6_OnlySourceUnavailableAborts == (Terminated /\ fetched) => pc = "exit_ok"

\* C10 as stated: working_relays changes only when no probe task is in
\* flight.
C10_MutatedOnlyBetweenBatches ==
    [][working_relays' # working_relays => Running = {}]_vars

\* C10 amended: working_relays is changed only by main itself, in the step
\* of its while loop that consumes one completed task's outcome, and only by
\* appending that outcome; a probe task never changes it.
C10_MutatedOnlyByScheduler ==
    [][working_relays' # working_relays =>
         /\ pc = "stream"
         /\ readyq # << >>
         /\ LET t == Head(readyq)
            IN  /\ tasks[t].st = "finished"
                /\ tasks'[t].st = "consumed"
                /\ tasks[t].res[1].ok
                /\ working_relays' =
                     Append(working_relays,
                            << tasks[t].res[1].relay, tasks[t].res[1].reachable >>)
                /\ \A u \in 1..Len(tasks) : u # t => tasks'[u] = tasks[u]]_vars

\* the first outcome of the first batch was appended while the other task of
\* that batch is still running
C10_Witness ==
    /\ pc = "stream"
    /\ chunk_no = 1
    /\ args.num_relays = 2
    /\ Len(working_relays) = 1
    /\ \E t, u \in 1..Len(tasks) :
         /\ ChunkOf(t) = 1
         /\ ChunkOf(u) = 1
         /\ tasks[t].st = "consumed"
         /\ tasks[u].st = "running"

\* ------------------------------------------------------------------------
\* C11: the goal counts distinct reachable candidates: no two entries of
\* working_relays carry the same fingerprint, with or without a port filter.
C11_DistinctCandidates ==
    \A a, b \in 1..Len(working_relays) :
        a # b => working_relays[a][1].fingerprint # working_relays[b][1].fingerprint

\* ------------------------------------------------------------------------
\* the stream yields the outcome of task t: the step that consumes it
Consumes(t) ==
    /\ t \in 1..Len(tasks)
    /\ tasks[t].st = "finished"
    /\ tasks'[t].st = "consumed"

\* C12: a probe task that crashed (its join handle yields a JoinError) counts
\* as a probe that found nothing: the step that consumes it appends nothing
\* to working_relays and writes nothing to the sink, only logs the failure;
\* the run does not end, the while loop goes on with the tasks of the batch
\* that are left (none of them is touched), and the batch ends as usual, on
\* to the goal check of the for loop.
C12_CrashIsZeroReachable ==
    [][\A t \in 1..Len(tasks) :
         (Consumes(t) /\ ~tasks[t].res[1].ok) =>
            /\ working_relays' = working_relays
            /\ sink' = sink
            /\ task_failed' = task_failed + 1
            /\ pc = "stream" /\ pc' = "stream"
            /\ err' = ""
            /\ chunk_no' = chunk_no
            /\ \A u \in 1..Len(tasks) : u # t => tasks'[u] = tasks[u]]_vars
    /\ [](pc = "loop" => \A t \in 1..Len(tasks) :
                           ChunkOf(t) < chunk_no => tasks[t].st = "consumed")

\* the first task of the first batch crashed, its failure was logged, the
\* second task of that batch was then consumed with a reachable address and
\* the second batch is running
C12_Witness ==
    /\ pc = "stream"
    /\ chunk_no = 2
    /\ args.num_relays = 2
    /\ task_failed = 1
    /\ Len(working_relays) = 1
    /\ Len(tasks) = 3
    /\ tasks[1].st = "consumed"
    /\ tasks[2].st = "consumed"
    /\ tasks[3].st = "running"

\* ------------------------------------------------------------------------
HexDigits == { Digits[d] : d \in 1..10 } \cup { "a", "b", "c", "d", "e", "f" }

\* the text of an IPv6 address in its compressed form, without brackets and
\* without a port: groups of one to four hex digits separated by single
\* colons, with "::" exactly once
IsBareIPv6(s) ==
    /\ Len(s) >= 2
    /\ \A k \in 1..Len(s) : s[k] \in HexDigits \cup { ":" }
    /\ Cardinality({ k \in 1..(Len(s) - 1) : s[k] = ":" /\ s[k + 1] = ":" }) = 1
    /\ s[1] = ":" => s[2] = ":"
    /\ s[Len(s)] = ":" => s[Len(s) - 1] = ":"
    /\ \A k \in 1..(Len(s) - 4) : \E m \in k..(k + 4) : s[m] = ":"

\* C13: parse_or_addresses rejects an IPv6 host written without brackets and
\* without a port (for instance 2001:db8::1): it yields no (host, port) pair
\* for it, rather than taking the text after the last ':' as the port.
C13_RejectsBareIPv6 ==
    (c_pc = "parsed" /\ IsBareIPv6(c_raw)) => c_parsed = << >>

\* ------------------------------------------------------------------------
\* the outcome of task t is consumed as the streaming rule says: a non-empty
\* reachable list is written to the sink and appended to working_relays in
\* the same step, anything else leaves both as they were
EmittedAndAppended(t) ==
    LET jr == tasks[t].res[1]
    IN  IF jr.ok /\ jr.reachable # << >>
        THEN /\ sink' = Append(sink, OutStr(jr.relay, jr.reachable))
             /\ working_relays' = Append(working_relays, << jr.relay, jr.reachable >>)
        ELSE /\ sink' = sink
             /\ working_relays' = working_relays

\* what the sink holds when exactly the entries of working_relays were written
EmittedLines ==
    [ k \in 1..Len(working_relays) |->
        OutStr(working_relays[k][1], working_relays[k][2]) ]

\* C14: streaming of results.  Every completed outcome is consumed once, the
\* outcomes are consumed in the order in which their tasks completed, an
\* outcome with a non-empty reachable list is written to the sink and
\* appended to working_relays in the step that consumes it (before the next
\* one is consumed), an outcome with an empty list is neither written nor
\* counted; every completed outcome of a batch is consumed (C1), so that at
\* every batch boundary the sink holds exactly the entries of working_relays.
C14_Streaming ==
    /\ [][\A t \in 1..Len(tasks) :
            /\ Consumes(t) => (t = Head(finished_order) /\ EmittedAndAppended(t))
            /\ tasks[t].st = "consumed" => tasks'[t].st = "consumed"]_vars
    /\ [](pc = "loop" => sink = EmittedLines)
    /\ [](Terminated => finished_order = << >>)

\* ------------------------------------------------------------------------
\* the text after the last ':' of an address, and the text before it
PortText(raw) == SubSeq(raw, LastIndexOf(raw, ":") + 1, Len(raw))
HostText(raw) == SubSeq(raw, 1, LastIndexOf(raw, ":") - 1)

\* the digits of a port text, an optional leading '+' left out
PortDigits(s) == IF Len(s) > 1 /\ s[1] = "+" THEN Tail(s) ELSE s

RECURSIVE DecimalValue(_)
DecimalValue(s) ==
    IF s = << >> THEN 0 ELSE DecimalValue(SubSeq(s, 1, Len(s) - 1)) * 10 + DigitVal(s[Len(s)])

\* the address has a ':' and what follows the last one is a 16-bit unsigned
\* integer in decimal
WellFormed(raw) ==
    /\ Contains(raw, ":")
    /\ PortDigits(PortText(raw)) # << >>
    /\ \A k \in 1..Len(PortDigits(PortText(raw))) : IsDigit(PortDigits(PortText(raw))[k])
    /\ DecimalValue(PortDigits(PortText(raw))) <= U16Max

WellFormedAddresses == SelectSeq(p_relay.or_addresses, WellFormed)

\* C15: a malformed address (no ':' or a port that is not a u16) is left out
\* of the parsed addresses of its relay while every other address of that
\* relay is kept, in order; check_relay still returns, having probed exactly
\* the remaining addresses, and reports the ones that connected.
C15_MalformedSkipped ==
    p_pc = "done" =>
        /\ Len(p_out) = 1
        /\ p_out[1].relay = p_relay
        /\ Len(p_out[1].attempted) = Len(WellFormedAddresses)
        /\ \A k \in 1..Len(WellFormedAddresses) :
             p_out[1].attempted[k] =
                 << StripBrackets(HostText(WellFormedAddresses[k])),
                    DecimalValue(PortDigits(PortText(WellFormedAddresses[k]))) >>
        /\ \A k \in 1..Len(WellFormedAddresses) :
             ConnectSucceeded(p_envs[k]) =>
                 \E m \in 1..Len(p_out[1].reachable) :
                     p_out[1].reachable[m] = p_out[1].attempted[k]

\* the first address has a port that is no number, the second is well formed
\* and connects: it is the one address probed and it is reported reachable
C15_Witness ==
    /\ p_pc = "done"
    /\ p_relay.or_addresses = << RawBadPort, RawV4p1 >>
    /\ Len(p_out) = 1
    /\ p_out[1].attempted = << << << "a" >>, 1 >> >>
    /\ p_out[1].reachable = << << << "a" >>, 1 >> >>

\* ------------------------------------------------------------------------
\* C16: when the pool is empty after the port filter (the directory served
\* no relay, or no address matched the listed ports) main returns Ok at
\* once: no probe task was created, nothing was found or written, and no
\* error or panic ends the run, whatever the batch size.
C16_EmptyPoolEndsQuietly ==
    (fetched /\ pc # "filter" /\ relay_pool = << >>) =>
        /\ pc = "exit_ok"
        /\ err = ""
        /\ tasks = << >>
        /\ chunk_no = 0
        /\ working_relays = << >>
        /\ sink = << >>
        /\ task_failed = 0

\* a run with a port filter and a batch size of 0 that ended on the empty
\* pool
C16_Witness ==
    /\ pc = "exit_ok"
    /\ fetched
    /\ relay_pool = << >>
    /\ args.port = { 1 }
    /\ args.num_relays = 0
    /\ args.outfile
    /\ sink = << >>

\* ------------------------------------------------------------------------
GoalMet == Len(working_relays) >= args.working_relay_num_goal

\* every relay of the pool was probed and its outcome consumed
Exhausted ==
    /\ Len(tasks) = Len(relay_pool)
    /\ \A t \in 1..Len(tasks) : tasks[t].st = "consumed"

\* C17: once the relay list has been fetched, and with every probe task
\* coming to its end, the run reaches a terminal state, and that state is a
\* normal end: main returns Ok with the goal met or with the pool exhausted.
C17_TerminatesNormally ==
    /\ <>Terminated
    /\ []((Terminated /\ fetched) => (pc = "exit_ok" /\ (GoalMet \/ Exhausted)))

\* ------------------------------------------------------------------------
\* how far the probe of a relay has come
StRank(st) ==
    CASE st = "unspawned" -> 0
      [] st = "running"   -> 1
      [] st = "finished"  -> 2
      [] st = "consumed"  -> 3

\* C18: no relay of the pool is probed twice within a run: a probe task is
\* spawned only for a relay that has none yet, and a relay whose probe has
\* started never goes back to an earlier stage (no retry of an unreachable
\* or crashed one).  When main returns Ok with the goal not met, or after
\* the last chunk, every relay of the pool was probed, once, and its outcome
\* consumed.
C18_NoRetry ==
    /\ [][\A t \in 1..Len(tasks) :
            /\ StRank(tasks'[t].st) >= StRank(tasks[t].st)
            /\ StRank(tasks'[t].st) <= StRank(tasks[t].st) + 1]_vars
    /\ []((pc = "exit_ok" /\ fetched
             /\ (~GoalMet \/ (chunk_no >= 1 /\ chunk_no > NumChunks)))
          => Exhausted)

\* a pool of three relays in batches of two, the goal of two not met: one
\* probe crashed, one found nothing, one found an address; all three were
\* probed and main returned Ok
C18_Witness ==
    /\ pc = "exit_ok"
    /\ args.num_relays = 2
    /\ args.working_relay_num_goal = 2
    /\ Len(relay_pool) = 3
    /\ Exhausted
    /\ task_failed = 1
    /\ Len(working_relays) = 1

\* ------------------------------------------------------------------------
\* the relays of chunk k, as the pool holds them
ChunkSlice(k) == SubSeq(relay_pool, ChunkBase(k) + 1, ChunkBase(k) + ChunkLen(k))

RECURSIVE ConcatChunks(_)
ConcatChunks(k) == IF k = 0 THEN << >> ELSE ConcatChunks(k - 1) \o ChunkSlice(k)

\* the relays a task was spawned for so far
SpawnedSoFar == { t \in 1..Len(tasks) : tasks[t].st # "unspawned" }

\* C19: with a pool that is not empty and a batch size of one or more, the
\* chunks are consecutive slices of the shuffled pool that put together, in
\* order, give the pool; every chunk but the last holds exactly BatchSize
\* relays, the last holds between 1 and BatchSize; there are
\* ceil(|pool| / BatchSize) chunks.  The batches that run are these chunks:
\* while chunk k is streamed, tasks exist for all of the chunks before k
\* and for the first relays of chunk k, and for no other relay.
C19_BatchPartition ==
    (chunk_no >= 1 /\ relay_pool # << >> /\ BatchSize >= 1) =>
        /\ NumChunks * BatchSize >= Len(relay_pool)
        /\ (NumChunks - 1) * BatchSize < Len(relay_pool)
        /\ ConcatChunks(NumChunks) = relay_pool
        /\ \A k \in 1..(NumChunks - 1) : Len(ChunkSlice(k)) = BatchSize
        /\ Len(ChunkSlice(NumChunks)) \in 1..BatchSize
        /\ pc = "stream" =>
             /\ chunk_no \in 1..NumChunks
             /\ SpawnedSoFar = 1..(ChunkBase(chunk_no) + spawned)
             /\ spawned <= Len(ChunkSlice(chunk_no))
        /\ pc = "loop" => SpawnedSoFar = 1..ChunkBase(chunk_no) \cap 1..Len(relay_pool)

\* three relays in batches of two: the second and last chunk, of one relay,
\* is streamed
C19_Witness ==
    /\ pc = "stream"
    /\ Len(relay_pool) = 3
    /\ BatchSize = 2
    /\ chunk_no = 2
    /\ spawned = 1
    /\ Len(ChunkSlice(1)) = 2
    /\ Len(ChunkSlice(2)) = 1

\* ------------------------------------------------------------------------
\* C20: the goal can be overshot by less than one batch: with a goal of one
\* or more, working_relays never holds more than goal - 1 + BatchSize
\* entries (the last batch is started with at most goal - 1 found and adds
\* at most BatchSize); with a goal of 0 no batch is started, no probe task
\* is spawned and working_relays stays empty.
C20_BoundedOvershoot ==
    /\ args.working_relay_num_goal >= 1 =>
         Len(working_relays) <= args.working_relay_num_goal - 1 + BatchSize
    /\ args.working_relay_num_goal = 0 =>
         /\ working_relays = << >>
         /\ pc # "stream"
         /\ \A t \in 1..Len(tasks) : tasks[t].st = "unspawned"

\* a goal of one and batches of two: both probes of the first batch found
\* an address, the bound of goal - 1 + BatchSize is reached
C20_Witness ==
    /\ args.working_relay_num_goal = 1
    /\ BatchSize = 2
    /\ Len(working_relays) = 2
    /\ pc = "exit_ok"

\* a goal of 0 with a pool that is not empty: main returned Ok and no task
\* was ever spawned
C20_WitnessGoalZero ==
    /\ args.working_relay_num_goal = 0
    /\ pc = "exit_ok"
    /\ Len(tasks) = 3

====
